---- MODULE Spec2Model ----
(***************************************************************************)
(* tinyplist: parse (parser.mjs) and serialize (serializer.mjs).           *)
(*                                                                         *)
(* Text is a sequence of one-character strings.  An element of the DOM is  *)
(* a record [tag, text, children]; a JavaScript value is a pair            *)
(* <<type, payload>> whose payload depends on the type:                    *)
(*   "null"       <<>>                                                     *)
(*   "boolean"    TRUE / FALSE                                             *)
(*   "string"     Text                                                     *)
(*   "bigint"     [neg, digits]      exact decimal digits, any length      *)
(*   "number"     [kind, neg, digits, n]   an IEEE double, see Num         *)
(*   "date"       [valid, y, mo, d, h, mi, s, ms]  a UTC instant           *)
(*   "bytes"      sequence of 0..255 (Uint8Array)                          *)
(*   "array"      sequence of values                                       *)
(*   "object"     sequence of <<key, value>> entries, keys distinct        *)
(* The XML text layer (DOMParser / XMLSerializer) is the browser's: a      *)
(* document is modelled as the element tree the browser hands to the       *)
(* library, and malformed text as a tree holding a parsererror element.    *)
(***************************************************************************)
EXTENDS Integers, Sequences, FiniteSets, TLC

(***************************************************************************)
(* Characters and digits                                                   *)
(***************************************************************************)
DigitChars == <<"0", "1", "2", "3", "4", "5", "6", "7", "8", "9">>

IsDigit(c) == \E i \in 1..Len(DigitChars) : DigitChars[i] = c

DigitVal(c) == (CHOOSE i \in 1..Len(DigitChars) : DigitChars[i] = c) - 1

DigitChar(d) == DigitChars[d + 1]

\* JavaScript white space (\s, StrWhiteSpaceChar) within the model's alphabet
IsSpace(c) == c \in {" ", "\n", "\t", "\r"}

Abs(i) == IF i < 0 THEN -i ELSE i

\* The digits a run of digit characters spells, and the reverse
ToDigits(cs) == [i \in 1..Len(cs) |-> DigitVal(cs[i])]

ToChars(ds) == [i \in 1..Len(ds) |-> DigitChar(ds[i])]

Drop(s, k) == IF k >= Len(s) THEN <<>> ELSE SubSeq(s, k + 1, Len(s))

Take(s, k) == IF k <= 0 THEN <<>> ELSE SubSeq(s, 1, IF k > Len(s) THEN Len(s) ELSE k)

Repeat(x, k) == [i \in 1..k |-> x]

\* Does literal lit occur in t at position i ?
StartsAt(t, i, lit) ==
  /\ i + Len(lit) - 1 <= Len(t)
  /\ \A j \in 1..Len(lit) : t[i + j - 1] = lit[j]

\* Index of the first position >= i of t that holds no digit (Len(t)+1 if none)
RECURSIVE ScanDigits(_, _)
ScanDigits(t, i) ==
  IF i <= Len(t) /\ IsDigit(t[i]) THEN ScanDigits(t, i + 1) ELSE i

RECURSIVE TrimLeft(_)
TrimLeft(t) ==
  IF t # <<>> /\ IsSpace(t[1]) THEN TrimLeft(Drop(t, 1)) ELSE t

RECURSIVE TrimRight(_)
TrimRight(t) ==
  IF t # <<>> /\ IsSpace(t[Len(t)]) THEN TrimRight(Take(t, Len(t) - 1)) ELSE t

Trim(t) == TrimRight(TrimLeft(t))

\* Decimal digits (as numbers 0..9) without leading / trailing zeros
RECURSIVE StripLeadingZeros(_)
StripLeadingZeros(ds) ==
  IF ds # <<>> /\ ds[1] = 0 THEN StripLeadingZeros(Drop(ds, 1)) ELSE ds

RECURSIVE StripTrailingZeros(_)
StripTrailingZeros(ds) ==
  IF ds # <<>> /\ ds[Len(ds)] = 0
    THEN StripTrailingZeros(Take(ds, Len(ds) - 1)) ELSE ds

\* Value of a short run of decimal digits (exponents, date fields)
RECURSIVE DigitsToInt(_)
DigitsToInt(ds) ==
  IF ds = <<>> THEN 0 ELSE 10 * DigitsToInt(Take(ds, Len(ds) - 1)) + ds[Len(ds)]

\* Decimal digits of a natural number, most significant first ("0" for 0)
RECURSIVE IntToDigits(_)
IntToDigits(k) ==
  IF k < 10 THEN <<k>> ELSE Append(IntToDigits(k \div 10), k % 10)

\* Magnitude comparison of two digit sequences without leading zeros
RECURSIVE DigitsLess(_, _)
DigitsLess(a, b) ==
  IF Len(a) # Len(b) THEN Len(a) < Len(b)
  ELSE IF a = <<>> THEN FALSE
  ELSE IF a[1] # b[1] THEN a[1] < b[1]
  ELSE DigitsLess(Drop(a, 1), Drop(b, 1))

(***************************************************************************)
(* JavaScript numbers.  A double is kept as the shortest decimal that      *)
(* identifies it, the form Number::toString works from:                    *)
(*   kind "finite":  value = (-1)^neg * 0.d1d2...dk * 10^n, d1 # 0, dk # 0 *)
(*   kind "zero" (neg tells -0), "inf", "nan"                              *)
(*   kind "untracked": the double nearest to a decimal of more than 15     *)
(*   significant digits that is no safe integer; its digits are not kept.  *)
(*   It arises from integer texts beyond 2^53 - 1 only, where it lies at   *)
(*   or above 2^53 in magnitude and int discards it for the BigInt.        *)
(***************************************************************************)
Num(kind, neg, digits, n) == [kind |-> kind, neg |-> neg, digits |-> digits, n |-> n]

NaN == Num("nan", FALSE, <<>>, 0)

\* Number.MAX_SAFE_INTEGER = 2^53 - 1 = 9007199254740991
MaxSafeDigits == <<9, 0, 0, 7, 1, 9, 9, 2, 5, 4, 7, 4, 0, 9, 9, 1>>

\* Is the finite double x integral ?  (its k digits end left of the point)
IsIntegral(x) == x.n >= Len(x.digits)

\* All decimal digits of the integral finite double x
IntegerDigits(x) == x.digits \o Repeat(0, x.n - Len(x.digits))

\* Number.isInteger
NumberIsInteger(x) ==
  \/ x.kind = "zero"
  \/ x.kind = "finite" /\ IsIntegral(x)

\* Number.isSafeInteger
NumberIsSafeInteger(x) ==
  \/ x.kind = "zero"
  \/ /\ x.kind = "finite"
     /\ IsIntegral(x)
     /\ ~DigitsLess(MaxSafeDigits, IntegerDigits(x))

At(t, i) == IF i >= 1 /\ i <= Len(t) THEN t[i] ELSE ""

InfinityText == <<"I", "n", "f", "i", "n", "i", "t", "y">>

NaNText == <<"N", "a", "N">>

\* The longest prefix of t that is a StrDecimalLiteral (ECMAScript 7.1.4.1):
\* [sign] ( Infinity | digits [. [digits]] [exponent] | . digits [exponent] )
DecimalPrefix(t) ==
  LET p1 == IF At(t, 1) \in {"+", "-"} THEN 2 ELSE 1
      neg == At(t, 1) = "-"
      a == ScanDigits(t, p1)
      hasDot == At(t, a) = "."
      b == IF hasDot THEN ScanDigits(t, a + 1) ELSE a
      ip == SubSeq(t, p1, a - 1)
      fp == IF hasDot THEN SubSeq(t, a + 1, b - 1) ELSE <<>>
      hasE == At(t, b) \in {"e", "E"}
      s == IF At(t, b + 1) \in {"+", "-"} THEN b + 2 ELSE b + 1
      c == ScanDigits(t, s)
      okExp == hasE /\ c > s
      exp == IF okExp
               THEN (IF At(t, b + 1) = "-" THEN -1 ELSE 1)
                      * DigitsToInt(ToDigits(SubSeq(t, s, c - 1)))
               ELSE 0
  IN  IF StartsAt(t, p1, InfinityText)
        THEN [ok |-> TRUE, end |-> p1 + Len(InfinityText), inf |-> TRUE,
              neg |-> neg, ip |-> <<>>, fp |-> <<>>, exp |-> 0]
      ELSE IF ip = <<>> /\ fp = <<>>
        THEN [ok |-> FALSE, end |-> 1, inf |-> FALSE,
              neg |-> neg, ip |-> <<>>, fp |-> <<>>, exp |-> 0]
      ELSE [ok |-> TRUE, end |-> IF okExp THEN c ELSE b, inf |-> FALSE,
            neg |-> neg, ip |-> ToDigits(ip), fp |-> ToDigits(fp),
            exp |-> exp]

\* The double denoted by a parsed decimal literal (round to nearest)
DecimalToNumber(d) ==
  IF d.inf THEN Num("inf", d.neg, <<>>, 0)
  ELSE LET all == d.ip \o d.fp
           lead == Len(all) - Len(StripLeadingZeros(all))
           sig == StripTrailingZeros(StripLeadingZeros(all))
           x == Num("finite", d.neg, sig, Len(d.ip) + d.exp - lead)
       IN  IF sig = <<>> THEN Num("zero", d.neg, <<>>, 0)
           ELSE IF Len(sig) <= 15 \/ NumberIsSafeInteger(x) THEN x
           ELSE Num("untracked", d.neg, <<>>, 0)

\* Number(text): StringToNumber.  Radix-prefixed literals (0x, 0o, 0b) need
\* letters the model's texts do not hold.
StringToNumber(text) ==
  LET t == Trim(text)
      d == DecimalPrefix(t)
  IN  IF t = <<>> THEN Num("zero", FALSE, <<>>, 0)
      ELSE IF d.ok /\ d.end = Len(t) + 1 THEN DecimalToNumber(d)
      ELSE NaN

\* parseFloat(text): the longest numeric prefix after leading white space
ParseFloat(text) ==
  LET d == DecimalPrefix(TrimLeft(text))
  IN  IF d.ok THEN DecimalToNumber(d) ELSE NaN

\* BigInt(text): StringToBigInt; ok = FALSE stands for the SyntaxError
StringToBigInt(text) ==
  LET t == Trim(text)
      p1 == IF At(t, 1) \in {"+", "-"} THEN 2 ELSE 1
      a == ScanDigits(t, p1)
      ds == StripLeadingZeros(ToDigits(SubSeq(t, p1, a - 1)))
  IN  IF t = <<>> THEN [ok |-> TRUE, neg |-> FALSE, digits |-> <<0>>]
      ELSE IF a = p1 \/ a # Len(t) + 1
        THEN [ok |-> FALSE, neg |-> FALSE, digits |-> <<0>>]
      ELSE IF ds = <<>> THEN [ok |-> TRUE, neg |-> FALSE, digits |-> <<0>>]
      ELSE [ok |-> TRUE, neg |-> At(t, 1) = "-", digits |-> ds]

\* String(bigint)
BigIntToString(b) ==
  (IF b.neg THEN <<"-">> ELSE <<>>) \o ToChars(b.digits)

\* String(number): Number::toString(x, 10), ECMAScript 6.1.6.1.20
NumberToString(x) ==
  LET k == Len(x.digits)
      n == x.n
      ds == ToChars(x.digits)
      e == n - 1
      expo == <<"e", IF e < 0 THEN "-" ELSE "+">>
                \o ToChars(IntToDigits(Abs(e)))
      body ==
        IF k <= n /\ n <= 21 THEN ds \o Repeat("0", n - k)
        ELSE IF 0 < n /\ n <= 21 THEN Take(ds, n) \o <<".">> \o Drop(ds, n)
        ELSE IF -6 < n /\ n <= 0 THEN <<"0", ".">> \o Repeat("0", -n) \o ds
        ELSE IF k = 1 THEN ds \o expo
        ELSE Take(ds, 1) \o <<".">> \o Drop(ds, 1) \o expo
  IN  IF x.kind = "nan" THEN NaNText
      ELSE IF x.kind = "zero" THEN <<"0">>
      ELSE IF x.kind = "inf"
        THEN (IF x.neg THEN <<"-">> ELSE <<>>) \o InfinityText
      ELSE (IF x.neg THEN <<"-">> ELSE <<>>) \o body

(***************************************************************************)
(* Dates.  A Date is kept as its UTC fields; an invalid Date (time value   *)
(* NaN) has valid = FALSE.  Years are 0..9999, the four-digit ISO form.    *)
(***************************************************************************)
DateOf(y, mo, d, h, mi, s, ms) ==
  [valid |-> TRUE, y |-> y, mo |-> mo, d |-> d, h |-> h, mi |-> mi, s |-> s, ms |-> ms]

InvalidDate ==
  [valid |-> FALSE, y |-> 0, mo |-> 0, d |-> 0, h |-> 0, mi |-> 0, s |-> 0, ms |-> 0]

\* k as exactly w decimal characters, zero padded
Pad(k, w) ==
  LET ds == IntToDigits(k)
  IN  ToChars(Repeat(0, w - Len(ds)) \o ds)

IsLeapYear(y) == (y % 4 = 0 /\ y % 100 # 0) \/ y % 400 = 0

DaysInMonth(y, mo) ==
  IF mo = 2 THEN (IF IsLeapYear(y) THEN 29 ELSE 28)
  ELSE IF mo \in {4, 6, 9, 11} THEN 30 ELSE 31

\* Date.prototype.toISOString of a valid Date: YYYY-MM-DDTHH:mm:ss.sssZ
DateToISOString(dt) ==
  Pad(dt.y, 4) \o <<"-">> \o Pad(dt.mo, 2) \o <<"-">> \o Pad(dt.d, 2) \o <<"T">>
    \o Pad(dt.h, 2) \o <<":">> \o Pad(dt.mi, 2) \o <<":">> \o Pad(dt.s, 2)
    \o <<".">> \o Pad(dt.ms, 3) \o <<"Z">>

AllDigits(t, from, to) == \A i \in from..to : IsDigit(At(t, i))

Field(t, from, to) == DigitsToInt(ToDigits(SubSeq(t, from, to)))

\* new Date(text) on the ECMAScript date-time string format, in the three
\* shapes YYYY-MM-DD, YYYY-MM-DDTHH:mm:ssZ and YYYY-MM-DDTHH:mm:ss.sssZ; any
\* other text of the model is one that no engine's fallback parser accepts.
DateParse(t) ==
  LET dateOk == /\ Len(t) >= 10
                /\ AllDigits(t, 1, 4) /\ At(t, 5) = "-" /\ AllDigits(t, 6, 7)
                /\ At(t, 8) = "-" /\ AllDigits(t, 9, 10)
      timeOk == /\ At(t, 11) = "T"
                /\ AllDigits(t, 12, 13) /\ At(t, 14) = ":" /\ AllDigits(t, 15, 16)
                /\ At(t, 17) = ":" /\ AllDigits(t, 18, 19)
      shape == IF dateOk /\ Len(t) = 10 THEN "date"
               ELSE IF dateOk /\ timeOk /\ Len(t) = 20 /\ At(t, 20) = "Z" THEN "seconds"
               ELSE IF /\ dateOk /\ timeOk /\ Len(t) = 24 /\ At(t, 20) = "."
                       /\ AllDigits(t, 21, 23) /\ At(t, 24) = "Z" THEN "millis"
               ELSE "none"
      y == Field(t, 1, 4)
      mo == Field(t, 6, 7)
      d == Field(t, 9, 10)
      h == IF shape = "date" THEN 0 ELSE Field(t, 12, 13)
      mi == IF shape = "date" THEN 0 ELSE Field(t, 15, 16)
      sec == IF shape = "date" THEN 0 ELSE Field(t, 18, 19)
      ms == IF shape = "millis" THEN Field(t, 21, 23) ELSE 0
  IN  IF shape = "none" THEN InvalidDate
      ELSE IF /\ mo \in 1..12 /\ d >= 1 /\ d <= DaysInMonth(y, mo)
              /\ h <= 23 /\ mi <= 59 /\ sec <= 59
        THEN DateOf(y, mo, d, h, mi, sec, ms)
      ELSE InvalidDate

(***************************************************************************)
(* Base64 (btoa / atob, Uint8Array toBase64 / fromBase64)                  *)
(***************************************************************************)
Base64Chars ==
  <<"A", "B", "C", "D", "E", "F", "G", "H", "I", "J", "K", "L", "M",
    "N", "O", "P", "Q", "R", "S", "T", "U", "V", "W", "X", "Y", "Z",
    "a", "b", "c", "d", "e", "f", "g", "h", "i", "j", "k", "l", "m",
    "n", "o", "p", "q", "r", "s", "t", "u", "v", "w", "x", "y", "z",
    "0", "1", "2", "3", "4", "5", "6", "7", "8", "9", "+", "/">>

IsBase64Char(c) == \E i \in 1..Len(Base64Chars) : Base64Chars[i] = c

Base64Val(c) == (CHOOSE i \in 1..Len(Base64Chars) : Base64Chars[i] = c) - 1

Base64Char(v) == Base64Chars[v + 1]

\* btoa / toBase64: three bytes to four characters, "=" padding
RECURSIVE Base64Encode(_)
Base64Encode(bytes) ==
  LET b1 == bytes[1]
      b2 == IF Len(bytes) >= 2 THEN bytes[2] ELSE 0
      b3 == IF Len(bytes) >= 3 THEN bytes[3] ELSE 0
      w == b1 * 65536 + b2 * 256 + b3
      c1 == Base64Char(w \div 262144)
      c2 == Base64Char((w \div 4096) % 64)
      c3 == Base64Char((w \div 64) % 64)
      c4 == Base64Char(w % 64)
  IN  IF bytes = <<>> THEN <<>>
      ELSE IF Len(bytes) = 1 THEN <<c1, c2, "=", "=">>
      ELSE IF Len(bytes) = 2 THEN <<c1, c2, c3, "=">>
      ELSE <<c1, c2, c3, c4>> \o Base64Encode(Drop(bytes, 3))

\* the bytes of base64 characters without padding; a last group of two or
\* three characters gives one or two bytes, its spare bits are discarded
RECURSIVE Base64DecodeChars(_)
Base64DecodeChars(cs) ==
  LET v(i) == IF i <= Len(cs) THEN Base64Val(cs[i]) ELSE 0
      w == v(1) * 262144 + v(2) * 4096 + v(3) * 64 + v(4)
      b1 == w \div 65536
      b2 == (w \div 256) % 256
      b3 == w % 256
  IN  IF cs = <<>> THEN <<>>
      ELSE IF Len(cs) = 2 THEN <<b1>>
      ELSE IF Len(cs) = 3 THEN <<b1, b2>>
      ELSE <<b1, b2, b3>> \o Base64DecodeChars(Drop(cs, 4))

\* atob (forgiving-base64 decode) of text without white space; ok = FALSE
\* stands for the error it throws.  Uint8Array.fromBase64 with its default
\* options accepts and rejects the same texts.
Base64Decode(t) ==
  LET unpadded ==
        IF Len(t) % 4 = 0 /\ Len(t) >= 2 /\ t[Len(t)] = "=" /\ t[Len(t) - 1] = "="
          THEN Take(t, Len(t) - 2)
        ELSE IF Len(t) % 4 = 0 /\ Len(t) >= 1 /\ t[Len(t)] = "="
          THEN Take(t, Len(t) - 1)
        ELSE t
  IN  IF Len(unpadded) % 4 = 1 \/ \E i \in 1..Len(unpadded) : ~IsBase64Char(unpadded[i])
        THEN [ok |-> FALSE, bytes |-> <<>>]
      ELSE [ok |-> TRUE, bytes |-> Base64DecodeChars(unpadded)]

(***************************************************************************)
(* DOM elements and JavaScript values                                      *)
(***************************************************************************)
Element(tag, text, children) == [tag |-> tag, text |-> text, children |-> children]

\* null / undefined where the code holds an element or nothing
NoNode == Element("#none", <<>>, <<>>)

\* children[j] of the code (0-based); undefined past the end
ChildAt(children, j) == IF j + 1 <= Len(children) THEN children[j + 1] ELSE NoNode

\* node.textContent: the text of the node and of its descendants
RECURSIVE TextContent(_)
RECURSIVE ConcatText(_)
ConcatText(nodes) ==
  IF nodes = <<>> THEN <<>>
  ELSE TextContent(nodes[1]) \o ConcatText(Drop(nodes, 1))

TextContent(node) == node.text \o ConcatText(node.children)

\* querySelector(tag) over a list of sibling subtrees: the first element in
\* document order with that tag name, NoNode if there is none
RECURSIVE QuerySelector(_, _)
QuerySelector(nodes, tag) ==
  IF nodes = <<>> THEN NoNode
  ELSE IF nodes[1].tag = tag THEN nodes[1]
  ELSE LET below == QuerySelector(nodes[1].children, tag)
       IN  IF below # NoNode THEN below
           ELSE QuerySelector(Drop(nodes, 1), tag)

\* A value is the pair <<type, payload>>
TypeOf(x) == x[1]
Payload(x) == x[2]

Null == <<"null", <<>>>>
Undefined == <<"undefined", <<>>>>
Bool(b) == <<"boolean", b>>
Str(t) == <<"string", t>>
BigIntV(neg, digits) == <<"bigint", [neg |-> neg, digits |-> digits]>>
NumV(x) == <<"number", x>>
DateV(dt) == <<"date", dt>>
Bytes(bs) == <<"bytes", bs>>
Arr(items) == <<"array", items>>
Obj(entries) == <<"object", entries>>

\* Outcome of a reader step: error "" when nothing was thrown, the value
\* built, and the console.warn calls made so far
R(error, value, warnings) == [error |-> error, value |-> value, warnings |-> warnings]

UnknownTagWarning == "Unknown plist tag"
MissingKeyWarning == "Missing key in dictionary or malformed structure"

(***************************************************************************)
(* parser.mjs                                                              *)
(***************************************************************************)
\* int without the BigInt branch: every integer is returned as a double
int_NumberOnly(text) == R("", NumV(StringToNumber(text)), <<>>)

\* int(text), parser.mjs:87-93
int(text) ==
  LET n == StringToNumber(text)
      b == StringToBigInt(text)
  IN  IF NumberIsSafeInteger(n) THEN R("", NumV(n), <<>>)
      ELSE IF b.ok THEN R("", BigIntV(b.neg, b.digits), <<>>)
      ELSE R("SyntaxError", Null, <<>>)

\* b64.replace(/\s/g, ""), parser.mjs:102
RECURSIVE RemoveSpaces(_)
RemoveSpaces(t) ==
  IF t = <<>> THEN <<>>
  ELSE IF IsSpace(t[1]) THEN RemoveSpaces(Drop(t, 1))
  ELSE <<t[1]>> \o RemoveSpaces(Drop(t, 1))

\* data(b64), parser.mjs:101-115
data(text) ==
  LET clean == RemoveSpaces(text)
      d == Base64Decode(clean)
  IN  IF d.ok THEN R("", Bytes(d.bytes), <<>>) ELSE R("Base64Error", Null, <<>>)

\* the handler of real, parser.mjs:43, made to reject what is no number
RealHandler_Strict(text) ==
  IF ParseFloat(text).kind = "nan" THEN R("SyntaxError", Null, <<>>)
  ELSE R("", NumV(ParseFloat(text)), <<>>)

\* the handler of real, parser.mjs:43
RealHandler(text) == R("", NumV(ParseFloat(text)), <<>>)

\* the pair count rounded up, so that a last key without a value is walked
PairCount_RoundedUp(children) == (Len(children) + 1) \div 2

\* Array.from({ length: children.length / 2 }, ...): ToLength truncates
PairCount(children) == Len(children) \div 2

\* Object.fromEntries: a repeated key keeps its first place and takes the
\* last value.  (Keys of the model are no array indices, which an object
\* would list first.)
RECURSIVE FromEntries(_)
FromEntries(entries) ==
  IF entries = <<>> THEN <<>>
  ELSE LET before == FromEntries(Take(entries, Len(entries) - 1))
           e == entries[Len(entries)]
       IN  IF \E i \in 1..Len(before) : before[i][1] = e[1]
             THEN [i \in 1..Len(before) |->
                     IF before[i][1] = e[1] THEN e ELSE before[i]]
           ELSE Append(before, e)

\* handlers[node.tagName] also finds what the handlers object inherits from
\* Object.prototype; called without a receiver in strict code
InheritedHandlers == {"constructor", "toString", "isPrototypeOf", "valueOf"}

ObjectUndefinedText ==
  <<"[", "o", "b", "j", "e", "c", "t", " ", "U", "n", "d", "e", "f", "i", "n", "e", "d", "]">>

InheritedHandler(tag) ==
  IF tag = "constructor" THEN R("", Obj(<<>>), <<>>)
  ELSE IF tag = "toString" THEN R("", Str(ObjectUndefinedText), <<>>)
  ELSE IF tag = "isPrototypeOf" THEN R("", Bool(FALSE), <<>>)
  ELSE R("TypeError", Null, <<>>)

RECURSIVE ParserVal(_)
RECURSIVE ParserArray(_)
RECURSIVE DictPairs(_, _, _)

\* One step of the mapper of dict, parser.mjs:67-76, for pair i
DictPair(children, i) ==
  LET k == ChildAt(children, i * 2)
      v == ChildAt(children, i * 2 + 1)
      r == ParserVal(v)
  IN  IF k = NoNode \/ k.tag # "key" THEN R("", <<>>, <<MissingKeyWarning>>)
      ELSE IF v # NoNode THEN R(r.error, <<<<TextContent(k), r.value>>>>, r.warnings)
      ELSE R("", <<<<TextContent(k), Null>>>>, <<>>)

\* The mapper applied to pairs i .. count-1 in order, then filter(Boolean):
\* the entries kept; a throw ends the walk
DictPairs(children, i, count) ==
  IF i >= count THEN R("", <<>>, <<>>)
  ELSE LET pair == DictPair(children, i)
           rest == DictPairs(children, i + 1, count)
       IN  IF pair.error # "" THEN R(pair.error, <<>>, pair.warnings)
           ELSE R(rest.error, pair.value \o rest.value, pair.warnings \o rest.warnings)

\* dict(node), parser.mjs:64-79
ParserDict(node) ==
  LET pairs == DictPairs(node.children, 0, PairCount(node.children))
  IN  IF pairs.error # "" THEN R(pairs.error, Null, pairs.warnings)
      ELSE R("", Obj(FromEntries(pairs.value)), pairs.warnings)

\* Array.from(node.children, (el) => val(el)), parser.mjs:40
ParserArray(children) ==
  IF children = <<>> THEN R("", <<>>, <<>>)
  ELSE LET first == ParserVal(children[1])
           rest == ParserArray(Drop(children, 1))
       IN  IF first.error # "" THEN R(first.error, <<>>, first.warnings)
           ELSE R(rest.error, <<first.value>> \o rest.value,
                  first.warnings \o rest.warnings)

\* val(node), parser.mjs:37-57
ParserVal(node) ==
  LET items == ParserArray(node.children)
  IN  CASE node.tag = "dict" -> ParserDict(node)
        [] node.tag = "array" ->
             IF items.error # "" THEN R(items.error, Null, items.warnings)
             ELSE R("", Arr(items.value), items.warnings)
        [] node.tag = "string" -> R("", Str(TextContent(node)), <<>>)
        [] node.tag = "integer" -> int(TextContent(node))
        [] node.tag = "real" -> RealHandler(TextContent(node))
        [] node.tag = "true" -> R("", Bool(TRUE), <<>>)
        [] node.tag = "false" -> R("", Bool(FALSE), <<>>)
        [] node.tag = "date" -> R("", DateV(DateParse(TextContent(node))), <<>>)
        [] node.tag = "data" -> data(TextContent(node))
        [] node.tag \in InheritedHandlers -> InheritedHandler(node.tag)
        [] OTHER -> R("", Str(TextContent(node)), <<UnknownTagWarning>>)

\* the loop of parse without its break: the last element child
FirstElementChild_NoBreak(plist) ==
  IF plist.children = <<>> THEN NoNode ELSE plist.children[Len(plist.children)]

\* The first element child of plist, parser.mjs:20-26
FirstElementChild(plist) == ChildAt(plist.children, 0)

\* parse(xml), parser.mjs:7-30, on the document the DOMParser returned
parse(document) ==
  LET err == QuerySelector(<<document.root>>, "parsererror")
      plist == QuerySelector(<<document.root>>, "plist")
      root == FirstElementChild(plist)
  IN  IF err # NoNode THEN R("Error parsing XML", Null, <<>>)
      ELSE IF plist = NoNode THEN R("Invalid plist", Null, <<>>)
      ELSE IF root = NoNode THEN R("", Null, <<>>)
      ELSE ParserVal(root)

(***************************************************************************)
(* serializer.mjs                                                          *)
(***************************************************************************)
\* Outcome of a writer step: error "" when nothing was thrown, and the node
SR(error, node) == [error |-> error, node |-> node]

\* el(doc, tag, text), serializer.mjs:56-60
el(tag, text) == Element(tag, text, <<>>)

\* b64(bytes), serializer.mjs:99-109
b64(bytes) == Base64Encode(bytes)

\* String(value) of a boolean
BooleanToString(b) == IF b THEN "true" ELSE "false"

\* appendChild without the test for an absent child
AppendChild_Unchecked(node, child) ==
  Element(node.tag, node.text, Append(node.children, child))

\* if (child) node.appendChild(child), serializer.mjs:73 and 88
AppendChild(node, child) ==
  IF child # NoNode THEN Element(node.tag, node.text, Append(node.children, child))
  ELSE node

RECURSIVE SerializerVal(_)
RECURSIVE ArrItems(_, _)
RECURSIVE DictEntries(_, _)

\* the loop of arr over the items left, serializer.mjs:86-89
ArrItems(node, items) ==
  IF items = <<>> THEN SR("", node)
  ELSE LET child == SerializerVal(items[1])
       IN  IF child.error # "" THEN SR(child.error, NoNode)
           ELSE ArrItems(AppendChild(node, child.node), Drop(items, 1))

\* arr(doc, items), serializer.mjs:84-91
arr(items) == ArrItems(Element("array", <<>>, <<>>), items)

\* the loop of dict over the entries left, serializer.mjs:70-74
DictEntries(node, entries) ==
  IF entries = <<>> THEN SR("", node)
  ELSE LET keyed == AppendChild(node, el("key", entries[1][1]))
           child == SerializerVal(entries[1][2])
       IN  IF child.error # "" THEN SR(child.error, NoNode)
           ELSE DictEntries(AppendChild(keyed, child.node), Drop(entries, 1))

\* dict(doc, obj), serializer.mjs:68-76
SerializerDict(entries) == DictEntries(Element("dict", <<>>, <<>>), entries)

\* val(doc, value), serializer.mjs:29-47
SerializerVal(value) ==
  CASE TypeOf(value) \in {"null", "undefined"} -> SR("", NoNode)
    [] TypeOf(value) = "boolean" -> SR("", Element(BooleanToString(Payload(value)), <<>>, <<>>))
    [] TypeOf(value) = "string" -> SR("", el("string", Payload(value)))
    [] TypeOf(value) = "bigint" -> SR("", el("integer", BigIntToString(Payload(value))))
    [] TypeOf(value) = "number" ->
         IF NumberIsInteger(Payload(value))
           THEN SR("", el("integer", NumberToString(Payload(value))))
         ELSE SR("", el("real", NumberToString(Payload(value))))
    [] TypeOf(value) = "date" ->
         IF Payload(value).valid THEN SR("", el("date", DateToISOString(Payload(value))))
         ELSE SR("RangeError", NoNode)
    [] TypeOf(value) = "bytes" -> SR("", el("data", b64(Payload(value))))
    [] TypeOf(value) = "array" -> arr(Payload(value))
    [] OTHER -> SerializerDict(Payload(value))

\* A document: its document type name and its root element
Document(doctype, root) == [doctype |-> doctype, root |-> root]

NoDocument == Document("", NoNode)

\* serialize(value), serializer.mjs:6-21: the document handed to XMLSerializer
serialize(value) ==
  LET node == SerializerVal(value)
      plist == Element("plist", <<>>, <<>>)
  IN  IF node.error # "" THEN [error |-> node.error, document |-> NoDocument]
      ELSE [error |-> "", document |-> Document("plist", AppendChild(plist, node.node))]

(***************************************************************************)
(* Inputs of the model                                                     *)
(***************************************************************************)
\* Longest text enumerated exhaustively over NumAlphabet
MaxTextLen == 2

\* Most children of an enumerated dict / array element
MaxChildren == 3

\* Most items / entries of an enumerated array / object value
MaxItems == 3

\* Most calls of parse / serialize chained on one input
MaxCalls == 2

SeqsUpTo(S, n) == UNION {[1..k -> S] : k \in 0..n}

NumAlphabet == {"0", "1", "5", "-", "+", ".", "e", " ", "a"}

ShortTexts == SeqsUpTo(NumAlphabet, MaxTextLen)

NumericTexts ==
  ShortTexts \cup
  { <<"9", "0", "0", "7", "1", "9", "9", "2", "5", "4", "7", "4", "0", "9", "9", "1">>,
    <<"9", "0", "0", "7", "1", "9", "9", "2", "5", "4", "7", "4", "0", "9", "9", "2">>,
    <<"-", "9", "0", "0", "7", "1", "9", "9", "2", "5", "4", "7", "4", "0", "9", "9", "2">>,
    <<"9", "2", "2", "3", "3", "7", "2", "0", "3", "6", "8", "5", "4", "7", "7", "5", "8", "0", "7">>,
    <<"-", "9", "2", "2", "3", "3", "7", "2", "0", "3", "6", "8", "5", "4", "7", "7", "5", "8", "0", "8">>,
    <<"0", "0", "7">>,
    <<"1", "e", "3">>,
    <<"1", ".", "5", "0">>,
    <<"1", "e", "+", "2", "1">>,
    <<"1", "e", "2", "1">>,
    <<"a", "b", "c">>,
    <<"I", "n", "f", "i", "n", "i", "t", "y">>,
    <<"-", "I", "n", "f", "i", "n", "i", "t", "y">>,
    <<"N", "a", "N">>,
    <<" ", "4", "2", "\n">>,
    <<"1", "2", "3", "4", "5", "6", "7", "8", "9", "0", "1", "2", "3", "4", "5", "6", "7", "8", "9", "0", "1", "2", "3">>,
    <<"0", ".", "0", "0", "0", "0", "0", "1">>,
    <<"1", "e", "-", "7">> }

\* Texts of real elements: at most 15 significant digits, so that the
\* double they denote is the decimal itself
RealTexts == {t \in NumericTexts : ParseFloat(t).kind # "untracked"}

DateTexts ==
  { <<"2", "0", "2", "0", "-", "0", "1", "-", "0", "2", "T", "0", "3", ":", "0", "4", ":", "0", "5", ".", "6", "7", "8", "Z">>,
    <<"2", "0", "2", "0", "-", "0", "1", "-", "0", "2">>,
    <<"2", "0", "2", "0", "-", "0", "1", "-", "0", "2", "T", "0", "3", ":", "0", "4", ":", "0", "5", "Z">>,
    <<"2", "0", "2", "0", "-", "1", "3", "-", "0", "1", "T", "0", "0", ":", "0", "0", ":", "0", "0", ".", "0", "0", "0", "Z">>,
    <<>>,
    <<"a", "b", "c">> }

DataTexts ==
  { <<"A", "A", "E", "C", "/", "w", "=", "=">>,
    <<"A", "A", " ", "E", "C", "\n", "/", "w", "=", "=">>,
    <<>>,
    <<"A">>,
    <<"A", "A", "=">>,
    <<"/", "w">>,
    <<"!">>,
    <<"A", "A", "E", "C">> }

StringTexts == {<<>>, <<"a">>, <<"a", " ", "b">>}

KeyTexts == {<<"a">>, <<"b">>, <<"c">>}

Leaf(tag, text) == Element(tag, text, <<>>)

\* Elements a plist document can hold as its value
LeafElements ==
  {Leaf("integer", t) : t \in NumericTexts} \cup
  {Leaf("real", t) : t \in RealTexts} \cup
  {Leaf("date", t) : t \in DateTexts} \cup
  {Leaf("data", t) : t \in DataTexts} \cup
  {Leaf("string", t) : t \in StringTexts} \cup
  {Leaf(tag, <<"a">>) : tag \in {"true", "false", "key", "foo"} \cup InheritedHandlers}

DanglingDict == Element("dict", <<>>, <<Leaf("key", <<"a">>)>>)

\* Children the enumerated dict and array elements are built from
ChildPool ==
  { Leaf("key", <<"a">>), Leaf("key", <<"b">>), Leaf("integer", <<"5">>),
    Leaf("integer", <<"a">>), Leaf("real", <<"a">>), Leaf("foo", <<"b">>),
    DanglingDict,
    Element("array", <<>>, <<Leaf("integer", <<"1">>)>>) }

ContainerElements ==
  {Element(tag, <<>>, cs) : tag \in {"dict", "array"}, cs \in SeqsUpTo(ChildPool, MaxChildren)}

ValueElements == LeafElements \cup ContainerElements

\* Documents as the DOMParser returns them: a plist with one value, with
\* none, with several, a plist below another root, no plist at all, and the
\* parsererror documents the browsers build for malformed text
Documents ==
  {Document("plist", Element("plist", <<>>, <<e>>)) : e \in ValueElements} \cup
  {Document("plist", Element("plist", <<>>, cs)) : cs \in SeqsUpTo({Leaf("integer", <<"5">>), Leaf("string", <<"a">>), DanglingDict}, 2)} \cup
  {Document("", Element(tag, <<>>, cs)) :
     tag \in {"parsererror", "html", "dict"},
     cs \in SeqsUpTo({Leaf("integer", <<"5">>), Element("plist", <<>>, <<Leaf("true", <<>>)>>),
                      Leaf("parsererror", <<"a">>)}, 2)} \cup
  {Document("plist", Element("plist", <<>>, <<Element("array", <<>>, <<e, Leaf("parsererror", <<"a">>)>>)>>)) :
     e \in {Leaf("integer", <<"5">>)}}

Fin(neg, digits, n) == NumV(Num("finite", neg, digits, n))

Numbers ==
  { NumV(Num("zero", FALSE, <<>>, 0)), NumV(Num("zero", TRUE, <<>>, 0)),
    NumV(NaN), NumV(Num("inf", FALSE, <<>>, 0)), NumV(Num("inf", TRUE, <<>>, 0)),
    Fin(FALSE, <<1>>, 1), Fin(FALSE, <<2>>, 1), Fin(TRUE, <<5>>, 1),
    Fin(FALSE, <<1>>, 4), Fin(FALSE, <<1, 5>>, 1), Fin(TRUE, <<1, 5>>, 1),
    Fin(FALSE, <<1, 2, 3>>, 2), Fin(FALSE, <<1>>, -5), Fin(FALSE, <<1>>, -6),
    Fin(FALSE, <<1, 5>>, -8), Fin(FALSE, MaxSafeDigits, 16),
    Fin(TRUE, MaxSafeDigits, 16),
    Fin(FALSE, <<9, 0, 0, 7, 1, 9, 9, 2, 5, 4, 7, 4, 0, 9, 9, 2>>, 16),
    Fin(FALSE, <<1>>, 21), Fin(FALSE, <<1>>, 22), Fin(TRUE, <<1, 2, 3>>, 25) }

BigInts ==
  { BigIntV(FALSE, <<0>>), BigIntV(FALSE, <<5>>), BigIntV(TRUE, <<5>>),
    BigIntV(FALSE, MaxSafeDigits), BigIntV(TRUE, MaxSafeDigits),
    BigIntV(FALSE, <<9, 0, 0, 7, 1, 9, 9, 2, 5, 4, 7, 4, 0, 9, 9, 2>>),
    BigIntV(TRUE, <<9, 0, 0, 7, 1, 9, 9, 2, 5, 4, 7, 4, 0, 9, 9, 2>>),
    BigIntV(FALSE, <<1, 0, 0, 0, 0, 0, 0, 0, 0, 0, 0, 0, 0, 0, 0, 0, 0>>),
    BigIntV(FALSE, <<9, 2, 2, 3, 3, 7, 2, 0, 3, 6, 8, 5, 4, 7, 7, 5, 8, 0, 7>>),
    BigIntV(TRUE, <<9, 2, 2, 3, 3, 7, 2, 0, 3, 6, 8, 5, 4, 7, 7, 5, 8, 0, 8>>),
    BigIntV(FALSE, <<1, 0, 0, 0, 0, 0, 0, 0, 0, 0, 0, 0, 0, 0, 0, 0, 0, 0, 0, 0, 0, 0>>) }

Dates ==
  { DateV(DateOf(2020, 1, 2, 3, 4, 5, 678)), DateV(DateOf(1970, 1, 1, 0, 0, 0, 0)),
    DateV(DateOf(2024, 2, 29, 23, 59, 59, 999)), DateV(InvalidDate) }

ByteArrays == {Bytes(bs) : bs \in {<<>>, <<255>>, <<0, 1>>, <<0, 1, 2>>, <<0, 1, 2, 255>>}}

ScalarValues ==
  {Null, Undefined, Bool(TRUE), Bool(FALSE)} \cup {Str(t) : t \in StringTexts}
    \cup Numbers \cup BigInts \cup Dates \cup ByteArrays

\* Items the enumerated arrays and objects are built from
ItemPool ==
  { Null, Fin(FALSE, <<1>>, 1), Fin(FALSE, <<2>>, 1), Str(<<"a">>), Str(<<"b">>),
    DateV(InvalidDate), Arr(<<Fin(FALSE, <<1>>, 1), Null>>),
    Obj(<<<<<<"a">>, Null>>>>) }

\* Entry lists with distinct keys
Entries ==
  {es \in SeqsUpTo(KeyTexts \X ItemPool, MaxItems) :
     \A i, j \in 1..Len(es) : i # j => es[i][1] # es[j][1]}

Values ==
  ScalarValues \cup {Arr(items) : items \in SeqsUpTo(ItemPool, MaxItems)}
    \cup {Arr(<<Undefined, Fin(FALSE, <<1>>, 1)>>)}
    \cup {Obj(es) : es \in Entries}

(***************************************************************************)
(* The calls.  A behaviour is one chain of calls on one input: the caller  *)
(* passes a document to parse or a value to serialize, and may pass the    *)
(* result on to the other function.                                        *)
(***************************************************************************)
VARIABLES
  op,        \* the last call: "init", "parse" or "serialize"
  calls,     \* calls made so far
  given,     \* the caller's input: [kind, document, value]
  document,  \* the document parse read or serialize returned
  value,     \* the value serialize was given or parse returned
  error,     \* what the last call threw, "" if it returned
  warnings   \* the console.warn calls of the last call

vars == <<op, calls, given, document, value, error, warnings>>

Init ==
  /\ op = "init"
  /\ calls = 0
  /\ given = [kind |-> "none", document |-> NoDocument, value |-> Null]
  /\ document = NoDocument
  /\ value = Null
  /\ error = ""
  /\ warnings = <<>>

\* parse applied to d: what it returns, throws and warns
DoParse(d) ==
  LET r == parse(d)
  IN  /\ op' = "parse"
      /\ calls' = calls + 1
      /\ document' = d
      /\ value' = IF r.error = "" THEN r.value ELSE Null
      /\ error' = r.error
      /\ warnings' = r.warnings

\* serialize applied to v: the document it returns or what it throws
DoSerialize(v) ==
  LET r == serialize(v)
  IN  /\ op' = "serialize"
      /\ calls' = calls + 1
      /\ value' = v
      /\ document' = r.document
      /\ error' = r.error
      /\ warnings' = <<>>

\* the caller parses a document
Parse(d) ==
  /\ op = "init"
  /\ given' = [kind |-> "document", document |-> d, value |-> Null]
  /\ DoParse(d)

\* the caller serializes a value
Serialize(v) ==
  /\ op = "init"
  /\ given' = [kind |-> "value", document |-> NoDocument, value |-> v]
  /\ DoSerialize(v)

\* parse(serialize(...)): the document serialize returned is parsed
ParseSerialized ==
  /\ op = "serialize" /\ error = "" /\ calls < MaxCalls
  /\ UNCHANGED given
  /\ DoParse(document)

\* serialize(parse(...)): the value parse returned is serialized
SerializeParsed ==
  /\ op = "parse" /\ error = "" /\ calls < MaxCalls
  /\ UNCHANGED given
  /\ DoSerialize(value)

Next ==
  \/ \E d \in Documents : Parse(d)
  \/ \E v \in Values : Serialize(v)
  \/ ParseSerialized
  \/ SerializeParsed

Spec == Init /\ [][Next]_vars

(***************************************************************************)
(* Properties                                                              *)
(***************************************************************************)
\* The state after parse(serialize(v)) for a value v the caller passed
AfterRoundTrip == op = "parse" /\ calls = 2 /\ given.kind = "value"

\* The state after the caller's own call
AfterParse == op = "parse" /\ calls = 1
AfterSerialize == op = "serialize" /\ calls = 1

\* The value element of the document: the first child of its root
RootElement == ChildAt(document.root.children, 0)

IsContainer(v) == TypeOf(v) \in {"array", "object"}

\* The members of a container value, in order
Members(v) ==
  IF TypeOf(v) = "array" THEN Payload(v)
  ELSE [i \in 1..Len(Payload(v)) |-> Payload(v)[i][2]]

\* A value of the Value Model with no Null inside a container: no undefined
\* and no invalid Date anywhere either
RECURSIVE Representable(_)
Representable(v) ==
  /\ TypeOf(v) # "undefined"
  /\ TypeOf(v) = "date" => Payload(v).valid
  /\ IsContainer(v) =>
       \A i \in 1..Len(Members(v)) :
         TypeOf(Members(v)[i]) # "null" /\ Representable(Members(v)[i])

\* Is v of the Integer variant: a bigint, or a number that is a safe integer
IsIntegerValue(v) ==
  \/ TypeOf(v) = "bigint"
  \/ TypeOf(v) = "number" /\ NumberIsSafeInteger(Payload(v))

\* Sign and decimal digits of an Integer value
IntegerOf(v) ==
  IF TypeOf(v) = "bigint" THEN Payload(v)
  ELSE IF Payload(v).kind = "zero" THEN [neg |-> FALSE, digits |-> <<0>>]
  ELSE [neg |-> Payload(v).neg, digits |-> IntegerDigits(Payload(v))]

\* Does v hold a whole number, as a bigint or as an integral double
IsWhole(v) ==
  \/ TypeOf(v) = "bigint"
  \/ TypeOf(v) = "number" /\ Payload(v).kind \in {"zero", "finite"}
       /\ NumberIsInteger(Payload(v))

\* Structural equality of the Value Model, read generously: whole numbers
\* are equal when they are the same integer, be they held as a number or
\* as a bigint, and -0 equals 0
RECURSIVE PlistEqual(_, _)
PlistEqual(a, b) ==
  IF IsWhole(a) /\ IsWhole(b) THEN IntegerOf(a) = IntegerOf(b)
  ELSE IF TypeOf(a) # TypeOf(b) THEN FALSE
  ELSE IF TypeOf(a) = "array" THEN
    /\ Len(Payload(a)) = Len(Payload(b))
    /\ \A i \in 1..Len(Payload(a)) : PlistEqual(Payload(a)[i], Payload(b)[i])
  ELSE IF TypeOf(a) = "object" THEN
    /\ Len(Payload(a)) = Len(Payload(b))
    /\ \A i \in 1..Len(Payload(a)) :
         /\ Payload(a)[i][1] = Payload(b)[i][1]
         /\ PlistEqual(Payload(a)[i][2], Payload(b)[i][2])
  ELSE Payload(a) = Payload(b)

\* C1: Round trip: for every PlistValue v with no Null nested inside a
\* container, serialize(v) returns a document and parse(serialize(v)) returns
\* a value structurally equal to v.
C1_RoundTrip ==
  /\ (AfterSerialize /\ Representable(value)) => error = ""
  /\ (AfterRoundTrip /\ Representable(given.value)) =>
       (error = "" /\ PlistEqual(value, given.value))

\* Text of an integer: its sign and every decimal digit
DecimalText(n) == (IF n.neg THEN <<"-">> ELSE <<>>) \o ToChars(n.digits)

IsLarge(n) == DigitsLess(MaxSafeDigits, n.digits)

\* C3: For every integer n (a bigint of any size, or a number that is a safe
\* integer) serialize(n) emits an integer element whose text is the sign and
\* the exact decimal digits of n; parse of that document returns a bigint
\* equal to n when |n| > 2^53 - 1 and a number equal to n otherwise.
C3_IntegerExact ==
  /\ (AfterSerialize /\ IsIntegerValue(value)) =>
       /\ error = ""
       /\ RootElement = Leaf("integer", DecimalText(IntegerOf(value)))
  /\ (AfterRoundTrip /\ IsIntegerValue(given.value)) =>
       /\ error = ""
       /\ TypeOf(value) = (IF IsLarge(IntegerOf(given.value)) THEN "bigint" ELSE "number")
       /\ IsIntegerValue(value)
       /\ IntegerOf(value) = IntegerOf(given.value)

\* C3 witness: a bigint beyond 2^53 - 1 came back from parse(serialize(n))
C3_Witness ==
  /\ AfterRoundTrip /\ TypeOf(given.value) = "bigint"
  /\ IsLarge(IntegerOf(given.value)) /\ given.value[2].neg
  /\ value = given.value

\* The items of an array that do not convert to absent
RECURSIVE Present(_)
Present(items) ==
  IF items = <<>> THEN <<>>
  ELSE (IF TypeOf(items[1]) \in {"null", "undefined"} THEN <<>> ELSE <<items[1]>>)
         \o Present(Drop(items, 1))

\* C7: serialize of an Array omits every element that converts to absent: the
\* array element has one child for each non-Null element, in the same order.
C7_ArrayOmitsNull ==
  (AfterSerialize /\ TypeOf(value) = "array" /\ error = "") =>
    /\ RootElement.tag = "array"
    /\ Len(RootElement.children) = Len(Present(Payload(value)))
    /\ \A i \in 1..Len(RootElement.children) :
         RootElement.children[i] = SerializerVal(Present(Payload(value))[i]).node

\* C7 witness: [1, Null, 2] was serialized to integer 1, integer 2
C7_Witness ==
  /\ AfterSerialize /\ error = ""
  /\ value = Arr(<<Fin(FALSE, <<1>>, 1), Null, Fin(FALSE, <<2>>, 1)>>)
  /\ RootElement.children = <<Leaf("integer", <<"1">>), Leaf("integer", <<"2">>)>>

\* Every element of a tree, in document order
RECURSIVE Preorder(_)
RECURSIVE PreorderAll(_)
PreorderAll(nodes) ==
  IF nodes = <<>> THEN <<>> ELSE Preorder(nodes[1]) \o PreorderAll(Drop(nodes, 1))

Preorder(node) == <<node>> \o PreorderAll(node.children)

HasTag(node, tag) == \E i \in 1..Len(Preorder(node)) : Preorder(node)[i].tag = tag

\* The caller's document is a plist whose value element the reader converts
ReadsRootElement ==
  /\ AfterParse /\ document.root.tag = "plist"
  /\ ~HasTag(document.root, "parsererror")
  /\ RootElement # NoNode

\* The value stored under key k of an object value, Undefined if there is none
Lookup(obj, k) ==
  IF \E i \in 1..Len(Payload(obj)) : Payload(obj)[i][1] = k
    THEN Payload(obj)[CHOOSE i \in 1..Len(Payload(obj)) : Payload(obj)[i][1] = k][2]
  ELSE Undefined

KeysOf(obj) == {Payload(obj)[i][1] : i \in 1..Len(Payload(obj))}

\* A dict element whose last child is a key with no value element after it
HasDanglingKey(node) ==
  /\ node.tag = "dict"
  /\ Len(node.children) % 2 = 1
  /\ node.children[Len(node.children)].tag = "key"

\* C2: A dict element with an odd number of children whose last child is a
\* key with no following value element is read as a Dict in which that last
\* key is present and maps to Null.
C2_DanglingKeyIsNull ==
  (ReadsRootElement /\ HasDanglingKey(RootElement) /\ error = "") =>
    /\ TypeOf(value) = "object"
    /\ LET last == RootElement.children[Len(RootElement.children)]
       IN  /\ TextContent(last) \in KeysOf(value)
           /\ Lookup(value, TextContent(last)) = Null

\* C4: serialize never fails, also on the values parse returned for some
\* document.
C4_SerializeTotal ==
  (op = "serialize" /\ given.kind = "document") => error = ""

NoDigit(t) == \A i \in 1..Len(t) : ~IsDigit(t[i])

\* Text that spells Infinity after white space and an optional sign
SpellsInfinity(t) ==
  LET u == TrimLeft(t)
  IN  StartsAt(u, IF At(u, 1) \in {"+", "-"} THEN 2 ELSE 1, InfinityText)

\* Text that is no number: not blank, no digit in it, and not the word
\* Infinity
NonNumeric(t) == Trim(t) # <<>> /\ NoDigit(t) /\ ~SpellsInfinity(t)

IsNumberLeaf(node) == node.tag \in {"integer", "real"} /\ node.children = <<>>

\* C5 as stated: non-numeric text in an integer or real element makes parse
\* raise an error and return no value.
C5_NonNumericIsFatal ==
  (ReadsRootElement /\ IsNumberLeaf(RootElement) /\ NonNumeric(RootElement.text)) =>
    error # ""

\* C5 amended: non-numeric text (not blank, no digit) in an integer element
\* is a fatal error: parse raises and returns no value; blank text there
\* reads as the number 0.  In a real element text without a digit is never
\* an error: parse returns not-a-number in that position, or an infinity
\* when the text spells Infinity.  The same holds for such an element as the
\* child of an array.
C5_NonNumericText ==
  /\ (ReadsRootElement /\ RootElement.tag = "integer" /\ NoDigit(TextContent(RootElement))) =>
       IF Trim(TextContent(RootElement)) = <<>>
         THEN error = "" /\ value = NumV(Num("zero", FALSE, <<>>, 0))
       ELSE error # "" /\ value = Null
  /\ (ReadsRootElement /\ RootElement.tag = "real" /\ NoDigit(TextContent(RootElement))) =>
       /\ error = ""
       /\ TypeOf(value) = "number"
       /\ IF SpellsInfinity(TextContent(RootElement))
            THEN Payload(value).kind = "inf"
          ELSE value = NumV(NaN)
  /\ (ReadsRootElement /\ RootElement.tag = "array") =>
       LET cs == RootElement.children
           fatal(c) == /\ c.tag = "integer" /\ NoDigit(TextContent(c))
                       /\ Trim(TextContent(c)) # <<>>
       IN  /\ (\E i \in 1..Len(cs) : fatal(cs[i])) => (error # "" /\ value = Null)
           /\ error = "" =>
                \A i \in 1..Len(cs) :
                  (cs[i].tag = "real" /\ NonNumeric(TextContent(cs[i]))) =>
                    Payload(value)[i] = NumV(NaN)

\* C5 witness: a real element holding letters was read as not-a-number
C5_Witness ==
  /\ ReadsRootElement /\ RootElement = Leaf("real", <<"a", "b", "c">>)
  /\ error = "" /\ value = NumV(NaN)

\* The key slots of a dict element's children (0-based pair numbers)
Pairs(cs) == 0..(Len(cs) \div 2 - 1)
GoodPairs(cs) == {i \in Pairs(cs) : cs[2 * i + 1].tag = "key"}
BadPairs(cs) == Pairs(cs) \ GoodPairs(cs)

Count(seq, x) == Cardinality({i \in 1..Len(seq) : seq[i] = x})

RECURSIVE Sum(_, _)
Sum(f, S) ==
  IF S = {} THEN 0 ELSE LET x == CHOOSE x \in S : TRUE IN f[x] + Sum(f, S \ {x})

\* The key slots of a dict element: slot i is child 2i (0-based), the last
\* one may have no value element after it
KeySlots(cs) == 0..((Len(cs) + 1) \div 2 - 1)
BadSlots(cs) == {i \in KeySlots(cs) : cs[2 * i + 1].tag # "key"}

\* The value the reader stores for the complete pair i when no later
\* complete pair repeats its key
PairIsRead(cs, i) ==
  (\A j \in GoodPairs(cs) : j > i => TextContent(cs[2 * j + 1]) # TextContent(cs[2 * i + 1]))
    => Lookup(value, TextContent(cs[2 * i + 1])) = ParserVal(cs[2 * i + 2]).value

\* C6: when the child in a key slot of a dict is not tagged key, parse drops
\* that pair, emits a warning for it, does not fail, and still converts
\* every other pair whose key slot is tagged key.
C6_BadKeySlotDropped ==
  (ReadsRootElement /\ RootElement.tag = "dict" /\ BadSlots(RootElement.children) # {}) =>
    LET cs == RootElement.children
    IN  /\ (\A i \in GoodPairs(cs) : ParserVal(cs[2 * i + 2]).error = "") => error = ""
        /\ error = "" =>
             /\ TypeOf(value) = "object"
             /\ Count(warnings, MissingKeyWarning) >= Cardinality(BadSlots(cs))
             /\ \A i \in GoodPairs(cs) : PairIsRead(cs, i)
             /\ \A i \in BadSlots(cs) :
                  TextContent(cs[2 * i + 1]) \in KeysOf(value) =>
                    \E j \in GoodPairs(cs) : TextContent(cs[2 * j + 1]) = TextContent(cs[2 * i + 1])

\* What holds of the key slots that do have a value element after them:
\* exactly the pairs with a key-tagged slot are entries, one warning is
\* emitted per other pair, and only a value that fails to convert fails
DictCompletePairs ==
  (ReadsRootElement /\ RootElement.tag = "dict") =>
    LET cs == RootElement.children
        nested == [i \in GoodPairs(cs) |->
                     Count(ParserVal(cs[2 * i + 2]).warnings, MissingKeyWarning)]
    IN  /\ (\A i \in GoodPairs(cs) : ParserVal(cs[2 * i + 2]).error = "") <=> error = ""
        /\ error = "" =>
             /\ TypeOf(value) = "object"
             /\ KeysOf(value) = {TextContent(cs[2 * i + 1]) : i \in GoodPairs(cs)}
             /\ Len(Payload(value)) = Cardinality(KeysOf(value))
             /\ \A i \in GoodPairs(cs) : PairIsRead(cs, i)
             /\ Count(warnings, MissingKeyWarning)
                  = Cardinality(BadPairs(cs)) + Sum(nested, GoodPairs(cs))

\* C8: parse fails, returning no value, when the document holds a
\* parsererror element (malformed text) or no plist element; otherwise it
\* returns Null when the first plist element has no element child and the
\* conversion of its first element child alone when it has one.
C8_ParseRoot ==
  AfterParse =>
    LET all == Preorder(document.root)
        plists == {i \in 1..Len(all) : all[i].tag = "plist"}
        plist == all[CHOOSE i \in plists : \A j \in plists : i <= j]
        r == ParserVal(plist.children[1])
    IN  IF HasTag(document.root, "parsererror") \/ plists = {}
          THEN error # "" /\ value = Null /\ warnings = <<>>
        ELSE IF plist.children = <<>> THEN error = "" /\ value = Null
        ELSE /\ error = r.error
             /\ value = (IF r.error = "" THEN r.value ELSE Null)
             /\ warnings = r.warnings

\* C8 witness: a plist with two element children was read as its first
C8_Witness ==
  /\ AfterParse /\ error = ""
  /\ document.root = Element("plist", <<>>, <<Leaf("string", <<"a">>), Leaf("integer", <<"5">>)>>)
  /\ value = Str(<<"a">>)

\* C8 second witness: malformed text and a missing plist both failed
C8_WitnessFailure ==
  /\ AfterParse /\ error # "" /\ value = Null
  /\ document.root.tag = "html" /\ ~HasTag(document.root, "parsererror")

\* The children serialize emits for an object's entries: a key element,
\* then the value's element unless the value is Null
RECURSIVE ExpectedDictChildren(_)
ExpectedDictChildren(entries) ==
  IF entries = <<>> THEN <<>>
  ELSE <<Leaf("key", entries[1][1])>>
         \o (IF entries[1][2] = Null THEN <<>> ELSE <<SerializerVal(entries[1][2]).node>>)
         \o ExpectedDictChildren(Drop(entries, 1))

\* A Dict with a Null among its values, the others plain strings or numbers
HasNullEntry(v) ==
  /\ TypeOf(v) = "object"
  /\ \E i \in 1..Len(Payload(v)) : Payload(v)[i][2] = Null
  /\ \A i \in 1..Len(Payload(v)) :
       TypeOf(Payload(v)[i][2]) \in {"null", "string", "number"}

\* C9: for a Dict d with a Null value at any position, serialize(d) emits
\* that key with no value element after it, and parse(serialize(d)) is a
\* Dict with the keys of d in which that key maps to Null and every other
\* entry keeps its value.
C9_NullEntryRoundTrip ==
  /\ (AfterSerialize /\ HasNullEntry(value)) =>
       /\ error = ""
       /\ RootElement.tag = "dict"
       /\ RootElement.children = ExpectedDictChildren(Payload(value))
  /\ (AfterRoundTrip /\ HasNullEntry(given.value)) =>
       /\ error = ""
       /\ TypeOf(value) = "object"
       /\ KeysOf(value) = KeysOf(given.value)
       /\ \A k \in KeysOf(given.value) : Lookup(value, k) = Lookup(given.value, k)

\* The part of C9 that is about serialize alone
DictNullEmitsBareKey ==
  (AfterSerialize /\ HasNullEntry(value)) =>
    /\ error = ""
    /\ RootElement.children = ExpectedDictChildren(Payload(value))

RECURSIVE NoNullInside(_)
NoNullInside(v) ==
  IsContainer(v) =>
    \A i \in 1..Len(Members(v)) :
      TypeOf(Members(v)[i]) # "null" /\ NoNullInside(Members(v)[i])

\* C10: in every value parse returns, Null is at most the whole result: no
\* Dict entry value and no Array element anywhere in it is Null.
C10_NullOnlyAtRoot ==
  (op = "parse" /\ error = "") => NoNullInside(value)

\* C10 witness: a dict ending in a key without a value was read, and so was
\* a plist without a value element (as Null)
C10_Witness ==
  \/ /\ ReadsRootElement /\ error = ""
     /\ HasDanglingKey(RootElement) /\ Len(RootElement.children) = 3
     /\ TypeOf(value) = "object"
  \/ /\ AfterParse /\ error = "" /\ document.root = Element("plist", <<>>, <<>>)
     /\ value = Null
====
